---------------------------- MODULE Spec2Model ----------------------------
(* Model of residency/graph.py: the weighted directed Graph (add_edge)   *)
(* and its biased shortest-path query (dijkstra).                        *)
(*                                                                       *)
(* Costs are kept in tenths so that the learner-mode factors 0.2, 0.5    *)
(* and 2 are exact integers: a base cost w is the integer 10*w.          *)
EXTENDS Integers, Sequences, FiniteSets, TLC

\* ----------------------------------------------------------------- bounds
NumNodes == 3
MaxWeight == 1
MaxEdges == 3
MaxQueries == 1
\* edges of the graphs on which a call is followed statement by statement
RunEdges == 3
\* nodes of the graphs on which the order of the frontier is followed
TieNodes == 4
\* nodes and largest base cost of the one-edge graphs on which the cost of an
\* edge is followed
CostNodes == 2
CostMaxWeight == 4

Node == 1..NumNodes
Weight == (-1)..MaxWeight
\* the (crowd, tip, blind_spot) arguments add_edge is called with
Annotation ==
  { [crowd |-> "low",    tip |-> "",            blind_spot |-> FALSE],
    [crowd |-> "high",   tip |-> "check right", blind_spot |-> TRUE],
    [crowd |-> "medium", tip |-> "slow down",   blind_spot |-> FALSE] }

\* the arguments add_edge is called with when a call is followed step by step
RunAnnotation == {[crowd |-> "high", tip |-> "check right", blind_spot |-> TRUE]}

\* float('inf') of graph.py line 20: larger than every finite distance
inf == 1000000
\* Python's None (graph.py line 22); node identifiers are 1..NumNodes
None == 0

\* adj_list: the Graph's adjacency mapping; last: the last call and what it
\* returned; queries: the number of dijkstra calls made so far
VARIABLES adj_list, last, queries
vars == <<adj_list, last, queries>>

\* ----------------------------------------------------------------- helpers
\* self.adj_list.get(u, []): a read that creates no key
get(adj, u) == IF u \in DOMAIN adj THEN adj[u] ELSE <<>>

\* number of edges stored in the graph
RECURSIVE SumLen(_, _)
SumLen(adj, S) ==
  IF S = {} THEN 0
  ELSE LET n == CHOOSE x \in S : TRUE
       IN Len(adj[n]) + SumLen(adj, S \ {n})
NumEdges(adj) == SumLen(adj, DOMAIN adj)

\* ----------------------------------------------------------------- add_edge
\* self.adj_list[u].append((v, weight, crowd, tip, blind_spot)) on a defaultdict(list)
\* an insertion at the front of u's list
append_edge_front(adj, u, e) ==
  IF u \in DOMAIN adj
  THEN [adj EXCEPT ![u] = <<e>> \o @]
  ELSE (u :> <<e>>) @@ adj

append_edge(adj, u, e) ==
  IF u \in DOMAIN adj
  THEN [adj EXCEPT ![u] = Append(@, e)]
  ELSE (u :> <<e>>) @@ adj

\* add_edge_graph without the weight test of line 9
add_edge_graph_unguarded(adj, u, v, weight, crowd, tip, blind_spot) ==
  append_edge(adj, u, [v |-> v, weight |-> weight, crowd |-> crowd,
                       tip |-> tip, blind_spot |-> blind_spot])

\* the graph after add_edge(u, v, weight, crowd, tip, blind_spot)
add_edge_graph(adj, u, v, weight, crowd, tip, blind_spot) ==
  IF weight < 0
  THEN adj
  ELSE append_edge(adj, u, [v |-> v, weight |-> weight, crowd |-> crowd,
                            tip |-> tip, blind_spot |-> blind_spot])

\* whether add_edge raises ValueError
add_edge_raises(weight) == weight < 0

\* crowd_bias with the factors of medium and high exchanged
crowd_bias_swapped(crowd, w) ==
  IF crowd = "low" THEN 0
  ELSE IF crowd = "medium" THEN w * 5
  ELSE IF crowd = "high" THEN w * 2
  ELSE 0

\* ----------------------------------------------------------------- dijkstra
\* crowd_bias of line 33, in tenths
crowd_bias(crowd, w) ==
  IF crowd = "low" THEN 0
  ELSE IF crowd = "medium" THEN w * 2
  ELSE IF crowd = "high" THEN w * 5
  ELSE 0

\* blind_spot_penalty with the penalty forgotten
blind_spot_penalty_none(blind_spot, w) == 0

\* blind_spot_penalty of line 34, in tenths
blind_spot_penalty(blind_spot, w) == IF blind_spot THEN w * 20 ELSE 0

\* bias applied in Normal mode instead of Learner mode
bias_modes_exchanged(e, learner_mode) ==
  IF ~learner_mode
  THEN crowd_bias(e.crowd, e.weight) + blind_spot_penalty(e.blind_spot, e.weight)
  ELSE 0

\* bias applied whatever the mode
bias_any_mode(e, learner_mode) ==
  crowd_bias(e.crowd, e.weight) + blind_spot_penalty(e.blind_spot, e.weight)

\* bias of lines 32-37, in tenths
bias(e, learner_mode) ==
  IF learner_mode
  THEN crowd_bias(e.crowd, e.weight) + blind_spot_penalty(e.blind_spot, e.weight)
  ELSE 0

\* edge_cost with the learner bias forgotten
edge_cost_unbiased(e, learner_mode) == e.weight * 10

\* w + bias of line 39, in tenths
edge_cost(e, learner_mode) == e.weight * 10 + bias(e, learner_mode)

\* a tuple order that breaks ties of cost by the larger node
tuple_less_desc(a, b) == a[1] < b[1] \/ (a[1] = b[1] /\ a[2] > b[2])

\* tuple comparison (dist, node) < (dist, node) used by heapq
tuple_less(a, b) == a[1] < b[1] \/ (a[1] = b[1] /\ a[2] < b[2])

\* a pop that takes the largest (dist, node) tuple of the heap
heappop_max(pq) == CHOOSE a \in pq : \A b \in pq : a = b \/ tuple_less(b, a)

\* heapq.heappop(pq): the smallest (dist, node) tuple of the heap
heappop(pq) == CHOOSE a \in pq : \A b \in pq : a = b \/ tuple_less(a, b)

\* distances.get(v, float('inf'))
dist_get(distances, v) == IF v \in DOMAIN distances THEN distances[v] ELSE inf

\* a relaxation that also replaces a recorded distance by an equal one
relax_nonstrict(st, u, dist_u, e, i, learner_mode) ==
  LET new_dist == dist_u + edge_cost(e, learner_mode)
  IN IF new_dist <= dist_get(st.distances, e.v)
     THEN [st EXCEPT !.distances = (e.v :> new_dist) @@ @,
                     !.previous  = (e.v :> u) @@ @,
                     !.via       = (e.v :> i) @@ @,
                     !.pq        = @ \cup {<<new_dist, e.v>>},
                     !.log       = Append(@, <<"push", new_dist, e.v>>)]
     ELSE st

\* a relaxation that pushes the neighbour without recording its distance
relax_unrecorded(st, u, dist_u, e, i, learner_mode) ==
  LET new_dist == dist_u + edge_cost(e, learner_mode)
  IN IF new_dist < dist_get(st.distances, e.v)
     THEN [st EXCEPT !.previous  = (e.v :> u) @@ @,
                     !.via       = (e.v :> i) @@ @,
                     !.pq        = @ \cup {<<new_dist, e.v>>},
                     !.log       = Append(@, <<"push", new_dist, e.v>>)]
     ELSE st

\* lines 39-43 for one edge: relax edge number i of u's list.  via and log
\* are histories of the search: via[v] is the list index of the edge that set
\* previous[v], log the pushes and pops of the frontier in the order they happen
relax(st, u, dist_u, e, i, learner_mode) ==
  LET new_dist == dist_u + edge_cost(e, learner_mode)
  IN IF new_dist < dist_get(st.distances, e.v)
     THEN [st EXCEPT !.distances = (e.v :> new_dist) @@ @,
                     !.previous  = (e.v :> u) @@ @,
                     !.via       = (e.v :> i) @@ @,
                     !.pq        = @ \cup {<<new_dist, e.v>>},
                     !.log       = Append(@, <<"push", new_dist, e.v>>)]
     ELSE st

\* the for loop of line 31 from edge number i on, in list order
RECURSIVE relax_all(_, _, _, _, _, _)
relax_all(st, u, dist_u, edges, i, learner_mode) ==
  IF i > Len(edges) THEN st
  ELSE relax_all(relax(st, u, dist_u, edges[i], i, learner_mode),
                 u, dist_u, edges, i + 1, learner_mode)

\* line 26: the search state after heappop; reads lists, in order, the nodes
\* whose edge list line 31 has read
pop(st) ==
  LET top == heappop(st.pq)
  IN [st EXCEPT !.pq = @ \ {top}, !.log = Append(@, <<"pop", top[1], top[2]>>)]

\* lines 31-43: the edge list of u is read and every edge relaxed
expand(adj, st, u, dist_u, learner_mode) ==
  relax_all([st EXCEPT !.reads = Append(@, u)], u, dist_u, get(adj, u), 1, learner_mode)

\* the while loop of lines 25-43
RECURSIVE search(_, _, _, _)
search(adj, st, end, learner_mode) ==
  IF st.pq = {} THEN st
  ELSE LET top    == heappop(st.pq)
           dist_u == top[1]
           u      == top[2]
           popped == pop(st)
       IN IF dist_u > st.distances[u] THEN search(adj, popped, end, learner_mode)
          ELSE IF u = end THEN popped
          ELSE search(adj, expand(adj, popped, u, dist_u, learner_mode),
                      end, learner_mode)

\* lines 19-23: the state the search starts from
search_init(adj, start, end) ==
  LET nodes == DOMAIN adj \cup {end}
  IN [distances |-> [n \in nodes |-> IF n = start THEN 0 ELSE inf],
      previous  |-> [n \in nodes |-> None],
      via       |-> [n \in nodes |-> 0],
      pq        |-> {<<0, start>>},
      log       |-> << <<"push", 0, start>> >>,
      reads     |-> <<>>]

\* previous.get(cur)
prev_get(previous, cur) == IF cur \in DOMAIN previous THEN previous[cur] ELSE None

\* lines 45-50: follow the predecessor links from cur, result already reversed
RECURSIVE back_trace(_, _)
back_trace(previous, cur) ==
  IF cur = None THEN <<>>
  ELSE Append(back_trace(previous, prev_get(previous, cur)), cur)

\* f"Blind spot at {u} to {v}"
blind_alert(u, v) == <<"Blind spot at", u, "to", v>>

\* index of the last edge of the list, from position i on, whose target is v
RECURSIVE last_match(_, _, _)
last_match(edges, v, i) ==
  IF i > Len(edges) THEN 0
  ELSE LET later == last_match(edges, v, i + 1)
       IN IF later # 0 THEN later
          ELSE IF edges[i].v = v THEN i
          ELSE 0

\* index of the first edge of the list whose target is v (0 when there is none):
\* the edge at which the inner loop of lines 59-65 breaks
RECURSIVE first_match(_, _, _)
first_match(edges, v, i) ==
  IF i > Len(edges) THEN 0
  ELSE IF edges[i].v = v THEN i
  ELSE first_match(edges, v, i + 1)

\* takes_tip without the learner_mode test
takes_tip_any_mode(e, learner_mode) == e.tip # ""

\* line 61: learner_mode and t
takes_tip(e, learner_mode) == learner_mode /\ e.tip # ""

\* lines 55-65: tips collected along path[i-1..], hops i..len(path)-1
RECURSIVE collect_tips(_, _, _, _)
collect_tips(adj, path, i, learner_mode) ==
  IF i > Len(path) THEN <<>>
  ELSE LET edges == get(adj, path[i-1])
           k     == first_match(edges, path[i], 1)
           rest  == collect_tips(adj, path, i + 1, learner_mode)
       IN IF k # 0 /\ takes_tip(edges[k], learner_mode)
          THEN <<edges[k].tip>> \o rest
          ELSE rest

\* alerts collected without the break of line 65: one per hazard-flagged edge
\* from path[i-1] to path[i]
RECURSIVE collect_alerts_all(_, _, _)
collect_alerts_all(adj, path, i) ==
  IF i > Len(path) THEN <<>>
  ELSE LET Hit(e) == e.v = path[i] /\ e.blind_spot
           hits   == SelectSeq(get(adj, path[i-1]), Hit)
       IN [k \in DOMAIN hits |-> blind_alert(path[i-1], path[i])]
            \o collect_alerts_all(adj, path, i + 1)

\* lines 55-65: blind spot alerts collected along the path
RECURSIVE collect_alerts(_, _, _)
collect_alerts(adj, path, i) ==
  IF i > Len(path) THEN <<>>
  ELSE LET edges == get(adj, path[i-1])
           k     == first_match(edges, path[i], 1)
           rest  == collect_alerts(adj, path, i + 1)
       IN IF k # 0 /\ edges[k].blind_spot
          THEN <<blind_alert(path[i-1], path[i])>> \o rest
          ELSE rest

\* the empty result ([], [], [])
no_path == [path |-> <<>>, tips |-> <<>>, blind_alerts |-> <<>>, via |-> <<>>]

\* unknown_start without the start != end test
unknown_start_any(adj, start, end) == start \notin DOMAIN adj

\* line 14: start has no adjacency entry and differs from end
unknown_start(adj, start, end) == start \notin DOMAIN adj /\ start # end

\* finish without the path[0] != start test of line 52
finish_unchecked(adj, start, path, via, learner_mode) ==
  IF path = <<>>
  THEN no_path
  ELSE [path         |-> path,
        tips         |-> collect_tips(adj, path, 2, learner_mode),
        blind_alerts |-> collect_alerts(adj, path, 2),
        via          |-> [i \in 1..(Len(path) - 1) |-> via[path[i+1]]]]

\* lines 52-67: the result built from the back-traced path; via[i] is the list
\* index of the edge whose relaxation made path[i] the predecessor of path[i+1]
\* (a history of the search, not a value the code returns)
finish(adj, start, path, via, learner_mode) ==
  IF path = <<>> \/ path[1] # start
  THEN no_path
  ELSE [path         |-> path,
        tips         |-> collect_tips(adj, path, 2, learner_mode),
        blind_alerts |-> collect_alerts(adj, path, 2),
        via          |-> [i \in 1..(Len(path) - 1) |-> via[path[i+1]]]]

\* the value returned by dijkstra(start, end, learner_mode)
dijkstra(adj, start, end, learner_mode) ==
  IF unknown_start(adj, start, end)
  THEN no_path
  ELSE IF start = end
  THEN [path |-> <<start>>, tips |-> <<>>, blind_alerts |-> <<>>, via |-> <<>>]
  ELSE LET st   == search(adj, search_init(adj, start, end), end, learner_mode)
           path == back_trace(st.previous, end)
       IN finish(adj, start, path, st.via, learner_mode)

\* the adjacency mapping after a read of u's list that creates an entry for a
\* missing key, as self.adj_list[u] does on a defaultdict
touch_creating(adj, u) == IF u \in DOMAIN adj THEN adj ELSE (u :> <<>>) @@ adj

\* the adjacency mapping after self.adj_list.get(u, []): nothing is created
touch(adj, u) == adj

\* the adjacency mapping after the reads of the edge lists of the nodes of us
RECURSIVE touch_all(_, _)
touch_all(adj, us) ==
  IF us = <<>> THEN adj ELSE touch_all(touch(adj, Head(us)), Tail(us))

\* self.adj_list after dijkstra(start, end, learner_mode): lines 14 and 19 look
\* keys up only, line 31 reads the list of every expanded node and line 59
\* that of every node of the returned path but the last
dijkstra_graph(adj, start, end, learner_mode) ==
  IF unknown_start(adj, start, end) \/ start = end
  THEN adj
  ELSE LET st   == search(adj, search_init(adj, start, end), end, learner_mode)
           path == finish(adj, start, back_trace(st.previous, end), st.via,
                          learner_mode).path
       IN touch_all(touch_all(adj, st.reads), SubSeq(path, 1, Len(path) - 1))

\* ----------------------------------------------------------------- state machine
\* Graph.__init__
Init ==
  /\ adj_list = <<>>
  /\ last = [op |-> "init"]
  /\ queries = 0

\* Graph.add_edge, called while the graph is being built (the callers build
\* the graph first and query it afterwards)
AddEdge ==
  \E u \in Node, v \in Node, weight \in Weight, a \in Annotation :
    /\ queries = 0
    /\ NumEdges(adj_list) < MaxEdges
    /\ adj_list' = add_edge_graph(adj_list, u, v, weight, a.crowd, a.tip, a.blind_spot)
    /\ last' = [op |-> "add_edge", weight |-> weight,
                raised |-> add_edge_raises(weight)]
    /\ UNCHANGED queries

\* Graph.dijkstra
Dijkstra ==
  \E start \in Node, end \in Node, learner_mode \in BOOLEAN :
    /\ queries < MaxQueries
    /\ queries' = queries + 1
    /\ last' = [op |-> "dijkstra", start |-> start, end |-> end,
                learner_mode |-> learner_mode,
                ret |-> dijkstra(adj_list, start, end, learner_mode)]
    /\ adj_list' = dijkstra_graph(adj_list, start, end, learner_mode)

Next == AddEdge \/ Dijkstra

Spec == Init /\ [][Next]_vars

\* ------------------------------------------------- dijkstra, step by step
\* The same call followed through its two loops.  While the call runs, last
\* is its frame: op "search" in the while loop of lines 25-43 (st the search
\* state), op "trace" in the loop of lines 47-49 (cur and path its variables).

\* path.reverse()
RECURSIVE reversed(_)
reversed(path) ==
  IF path = <<>> THEN <<>> ELSE Append(reversed(Tail(path)), Head(path))

\* Graph.add_edge, its arguments kept in last
RunAddEdge ==
  \E u \in Node, v \in Node, weight \in Weight, a \in RunAnnotation :
    /\ queries = 0
    /\ NumEdges(adj_list) < RunEdges
    /\ adj_list' = add_edge_graph(adj_list, u, v, weight, a.crowd, a.tip, a.blind_spot)
    /\ last' = [op |-> "add_edge", u |-> u, v |-> v, weight |-> weight,
                crowd |-> a.crowd, tip |-> a.tip, blind_spot |-> a.blind_spot,
                raised |-> add_edge_raises(weight)]
    /\ UNCHANGED queries

\* lines 13-23: the call, up to the first test of the while loop
CallFrom(nodes) ==
  \E start \in nodes, end \in nodes, learner_mode \in BOOLEAN :
    /\ last.op \notin {"search", "trace"}
    /\ queries < MaxQueries
    /\ queries' = queries + 1
    /\ last' = IF unknown_start(adj_list, start, end) \/ start = end
               THEN [op |-> "dijkstra", start |-> start, end |-> end,
                     learner_mode |-> learner_mode,
                     ret |-> dijkstra(adj_list, start, end, learner_mode)]
               ELSE [op |-> "search", start |-> start, end |-> end,
                     learner_mode |-> learner_mode,
                     st |-> search_init(adj_list, start, end)]
    /\ UNCHANGED adj_list

RunCall == CallFrom(Node)

\* the frame in which the back-trace of lines 45-49 starts
trace_frame(frame, st) ==
  [op |-> "trace", start |-> frame.start, end |-> frame.end,
   learner_mode |-> frame.learner_mode, st |-> st,
   cur |-> frame.end, path |-> <<>>]

\* lines 25-43: one test of `while pq` and, if it passes, one iteration
RunLoop ==
  /\ last.op = "search"
  /\ IF last.st.pq = {}
     THEN /\ last' = trace_frame(last, last.st)
          /\ UNCHANGED adj_list
     ELSE LET top    == heappop(last.st.pq)
              dist_u == top[1]
              u      == top[2]
              popped == pop(last.st)
          IN IF dist_u > last.st.distances[u]
             THEN /\ last' = [last EXCEPT !.st = popped]
                  /\ UNCHANGED adj_list
             ELSE IF u = last.end
             THEN /\ last' = trace_frame(last, popped)
                  /\ UNCHANGED adj_list
             ELSE /\ last' = [last EXCEPT !.st =
                                 expand(adj_list, popped, u, dist_u, last.learner_mode)]
                  /\ adj_list' = touch(adj_list, u)
  /\ UNCHANGED queries

\* lines 47-67: one test of `while cur is not None` and, if it passes, one
\* iteration; once it fails, the rest of the call
RunTrace ==
  /\ last.op = "trace"
  /\ IF last.cur # None
     THEN /\ last' = [last EXCEPT !.path = Append(@, last.cur),
                                  !.cur  = prev_get(last.st.previous, last.cur)]
          /\ UNCHANGED adj_list
     ELSE LET ret == finish(adj_list, last.start, reversed(last.path), last.st.via,
                            last.learner_mode)
          IN /\ last' = [op |-> "dijkstra", start |-> last.start, end |-> last.end,
                         learner_mode |-> last.learner_mode, ret |-> ret]
             /\ adj_list' = touch_all(adj_list, SubSeq(ret.path, 1, Len(ret.path) - 1))
  /\ UNCHANGED queries

RunNext == RunAddEdge \/ RunCall \/ RunLoop \/ RunTrace

\* the call is synchronous: once started, its loops keep running
SpecRun == Init /\ [][RunNext]_vars /\ WF_vars(RunLoop) /\ WF_vars(RunTrace)

\* --------------------------------------------- dijkstra on diamond graphs
\* The call followed step by step on the graphs with two routes of two hops,
\* s -> a -> t and s -> b -> t, for every naming of s, a, b, t, every order of
\* the four add_edge calls and every choice of the four costs.

TieNode == 1..TieNodes

\* the graph after the add_edge calls of the sequence, each <<u, v, weight>>
RECURSIVE build(_, _)
build(adj, calls) ==
  IF calls = <<>> THEN adj
  ELSE build(add_edge_graph(adj, Head(calls)[1], Head(calls)[2], Head(calls)[3],
                            "low", "", FALSE),
             Tail(calls))

\* the add_edge calls of a diamond: name[1..4] are s, a, b, t
diamond(name, weight) ==
  << <<name[1], name[2], weight[1]>>, <<name[1], name[3], weight[2]>>,
     <<name[2], name[4], weight[3]>>, <<name[3], name[4], weight[4]>> >>

TieGraphs ==
  {build(<<>>, [k \in 1..4 |-> diamond(name, weight)[order[k]]]) :
     name   \in {f \in [1..4 -> TieNode] : \A i, j \in 1..4 : f[i] = f[j] => i = j},
     order  \in Permutations(1..4),
     weight \in [1..4 -> 0..MaxWeight]}

TieInit ==
  /\ adj_list \in TieGraphs
  /\ last = [op |-> "init"]
  /\ queries = 0

TieCall == CallFrom(TieNode)

TieNext == TieCall \/ RunLoop \/ RunTrace

SpecTie == TieInit /\ [][TieNext]_vars

\* ------------------------------------------------------ navigation.py
\* EnhancedRealWorldGPS is a Graph: the breadth-first pre-check
\* _is_connected and the part of route_between_coordinates that uses it.

\* lines 314-319: the for loop over the edges of the current node, from edge k
RECURSIVE bfs_for(_, _, _, _, _)
bfs_for(edges, k, end, visited, queue) ==
  IF k > Len(edges)
  THEN [found |-> FALSE, visited |-> visited, queue |-> queue]
  ELSE LET neighbor == edges[k].v
       IN IF neighbor = end
          THEN [found |-> TRUE, visited |-> visited, queue |-> queue]
          ELSE IF neighbor \notin visited
          THEN bfs_for(edges, k + 1, end, visited \cup {neighbor}, Append(queue, neighbor))
          ELSE bfs_for(edges, k + 1, end, visited, queue)

\* lines 312-320: while queue
RECURSIVE bfs_while(_, _, _, _)
bfs_while(adj, end, visited, queue) ==
  IF queue = <<>> THEN FALSE
  ELSE LET r == bfs_for(get(adj, Head(queue)), 1, end, visited, Tail(queue))
       IN IF r.found THEN TRUE ELSE bfs_while(adj, end, r.visited, r.queue)

\* _is_connected without the start == end test of line 306
is_connected_by_edges(adj, start, end) == bfs_while(adj, end, {start}, <<start>>)

\* _is_connected(start, end)
is_connected(adj, start, end) ==
  IF start = end THEN TRUE ELSE bfs_while(adj, end, {start}, <<start>>)

\* a call of _is_connected
IsConnected ==
  \E start \in Node, end \in Node :
    /\ queries < MaxQueries
    /\ queries' = queries + 1
    /\ last' = [op |-> "_is_connected", start |-> start, end |-> end,
                ret |-> is_connected(adj_list, start, end)]
    /\ UNCHANGED adj_list

\* route_between_coordinates from line 275: start_node and end_node are what
\* find_nearest_node_enhanced returns for the two coordinates, a key of the
\* graph each, or nothing when the graph has no key; branch is the message of
\* the branch taken
route(adj, start, end, learner_mode) ==
  IF ~is_connected(adj, start, end)
  THEN [branch |-> "No path exists between start and end points",
        connected |-> FALSE, ret |-> no_path]
  ELSE LET ret == dijkstra(adj, start, end, learner_mode)
       IN [branch |-> IF ret.path # <<>> THEN "route details"
                      ELSE "No route found between these locations",
           connected |-> TRUE, ret |-> ret]

Route ==
  /\ queries < MaxQueries
  /\ queries' = queries + 1
  /\ IF DOMAIN adj_list = {}
     THEN /\ last' = [op |-> "route",
                      branch |-> "Could not find nearby roads for routing",
                      connected |-> FALSE, ret |-> no_path]
          /\ UNCHANGED adj_list
     ELSE \E start \in DOMAIN adj_list, end \in DOMAIN adj_list, learner_mode \in BOOLEAN :
            LET r == route(adj_list, start, end, learner_mode)
            IN /\ last' = [op |-> "route", start |-> start, end |-> end,
                           learner_mode |-> learner_mode, branch |-> r.branch,
                           connected |-> r.connected, ret |-> r.ret]
               /\ adj_list' = IF r.connected
                              THEN dijkstra_graph(adj_list, start, end, learner_mode)
                              ELSE adj_list

RouteNext == RunAddEdge \/ IsConnected \/ Route

SpecRoute == Init /\ [][RouteNext]_vars

\* lines 458-463: the base cost added for the hops from path[i-1] on, the
\* first stored edge path[i-1] -> path[i] of each hop
RECURSIVE total_distance_m(_, _, _)
total_distance_m(adj, path, i) ==
  IF i > Len(path) THEN 0
  ELSE LET edges == get(adj, path[i-1])
           k     == first_match(edges, path[i], 1)
       IN (IF k # 0 THEN edges[k].weight ELSE 0) + total_distance_m(adj, path, i + 1)

\* get_enhanced_route_summary(path): the fields computed without float
\* arithmetic
get_enhanced_route_summary(adj, path) ==
  IF Len(path) < 2
  THEN [distance_meters |-> 0, turns |-> 0, nodes |-> 0]
  ELSE [distance_meters |-> total_distance_m(adj, path, 2),
        turns           |-> Len(path) - 2,
        nodes           |-> Len(path)]

\* the adjacency mapping after the reads self.adj_list[u] of line 460 for the
\* hops from path[i-1] on: the defaultdict gets an empty list for a missing u
RECURSIVE summary_graph(_, _, _)
summary_graph(adj, path, i) ==
  IF i > Len(path) \/ Len(path) < 2 THEN adj
  ELSE LET u == path[i-1]
       IN summary_graph(IF u \in DOMAIN adj THEN adj ELSE (u :> <<>>) @@ adj,
                        path, i + 1)

\* the summary of the route dijkstra returns in Normal mode, as
\* _display_route_details_with_places asks for it (line 341)
Summary ==
  \E start \in Node, end \in Node :
    LET path == dijkstra(adj_list, start, end, FALSE).path
    IN /\ queries < MaxQueries
       /\ queries' = queries + 1
       /\ last' = [op |-> "summary", start |-> start, end |-> end, path |-> path,
                   ret |-> get_enhanced_route_summary(adj_list, path)]
       /\ adj_list' = summary_graph(dijkstra_graph(adj_list, start, end, FALSE),
                                    path, 2)

SummaryNext == RunAddEdge \/ Summary

SpecSummary == Init /\ [][SummaryNext]_vars

\* -------------------------------------------- dijkstra on one-edge graphs
\* The call followed step by step on the graphs of a single edge, for every
\* base cost up to CostMaxWeight and every annotation: the three congestion
\* levels and a level the table of line 33 does not hold, with and without
\* advisory, with and without hazard flag.

CostNode == 1..CostNodes

CostAnnotation ==
  [crowd : {"low", "medium", "high", "jam"}, tip : {"", "check right"},
   blind_spot : BOOLEAN]

CostGraphs ==
  {add_edge_graph(<<>>, u, v, weight, a.crowd, a.tip, a.blind_spot) :
     u \in CostNode, v \in CostNode, weight \in 0..CostMaxWeight, a \in CostAnnotation}

CostInit ==
  /\ adj_list \in CostGraphs
  /\ last = [op |-> "init"]
  /\ queries = 0

CostCall == CallFrom(CostNode)

CostNext == CostCall \/ RunLoop \/ RunTrace

SpecCost == CostInit /\ [][CostNext]_vars

\* ----------------------------------------------------------------- properties
Range(seq) == {seq[i] : i \in DOMAIN seq}

\* the stored edges from u to v
EdgesTo(adj, u, v) == {e \in Range(get(adj, u)) : e.v = v}

\* node sequences of at least two nodes
NodeSeqs == UNION {[1..k -> Node] : k \in 2..NumNodes}

\* the directed routes from start to end that repeat no node, as node sequences
Routes(adj, start, end) ==
  {p \in NodeSeqs :
     /\ p[1] = start
     /\ p[Len(p)] = end
     /\ \A i, j \in DOMAIN p : p[i] = p[j] => i = j
     /\ \A i \in 1..(Len(p) - 1) : EdgesTo(adj, p[i], p[i+1]) # {}}

\* end can be reached from start along stored edges
Reachable(adj, start, end) == Routes(adj, start, end) # {}

\* the effective cost of an edge as the cost function is stated, in tenths:
\* w in Normal mode; w + crowd_bias + hazard_penalty in Learner mode
EffectiveCost(e, learner_mode) ==
  IF ~learner_mode THEN 10 * e.weight
  ELSE 10 * e.weight
       + (CASE e.crowd = "medium" -> 2 * e.weight
            [] e.crowd = "high"   -> 5 * e.weight
            [] OTHER              -> 0)
       + (IF e.blind_spot THEN 20 * e.weight ELSE 0)

\* the least effective cost of a stored edge from u to v
HopCost(adj, u, v, learner_mode) ==
  LET costs == {EffectiveCost(e, learner_mode) : e \in EdgesTo(adj, u, v)}
  IN CHOOSE c \in costs : \A d \in costs : c <= d

\* total effective cost of a node sequence, the cheapest stored edge per hop
RECURSIVE RouteCost(_, _, _)
RouteCost(adj, p, learner_mode) ==
  IF Len(p) < 2 THEN 0
  ELSE HopCost(adj, p[1], p[2], learner_mode) + RouteCost(adj, Tail(p), learner_mode)

\* p is a walk along stored edges of the graph
IsWalk(adj, p) == \A i \in 1..(Len(p) - 1) : EdgesTo(adj, p[i], p[i+1]) # {}

IsQuery == last.op = "dijkstra"

\* C1: when end is reachable from start != end, dijkstra returns a path from
\* start to end along stored edges whose total effective cost under the mode
\* (cheapest stored edge per hop) is the least total cost of any route.
C1_LeastCost ==
  (IsQuery /\ last.start # last.end /\ Reachable(adj_list, last.start, last.end)) =>
    /\ last.ret.path # <<>>
    /\ last.ret.path[1] = last.start
    /\ last.ret.path[Len(last.ret.path)] = last.end
    /\ IsWalk(adj_list, last.ret.path)
    /\ \A p \in Routes(adj_list, last.start, last.end) :
         RouteCost(adj_list, last.ret.path, last.learner_mode)
           <= RouteCost(adj_list, p, last.learner_mode)

\* a learner query whose end is a pure sink, where the route returned has two
\* hops and is strictly cheaper than a direct edge that also exists
C1_Witness ==
  /\ IsQuery /\ last.learner_mode
  /\ last.end \notin DOMAIN adj_list
  /\ Len(last.ret.path) = 3
  /\ <<last.start, last.end>> \in Routes(adj_list, last.start, last.end)
  /\ RouteCost(adj_list, last.ret.path, TRUE)
       < RouteCost(adj_list, <<last.start, last.end>>, TRUE)

\* C2: when start != end and no route leads from start to end, dijkstra
\* returns ([], [], []) in either mode.
C2_Unreachable ==
  (IsQuery /\ last.start # last.end /\ ~Reachable(adj_list, last.start, last.end)) =>
    /\ last.ret.path = <<>>
    /\ last.ret.tips = <<>>
    /\ last.ret.blind_alerts = <<>>

\* start has outgoing edges, end is found nowhere in the graph and the
\* result is empty
C2_Witness ==
  /\ IsQuery /\ last.start # last.end
  /\ last.start \in DOMAIN adj_list
  /\ last.end \notin DOMAIN adj_list
  /\ \A u \in DOMAIN adj_list : EdgesTo(adj_list, u, last.end) = {}
  /\ last.ret.path = <<>>

\* C3: dijkstra(n, n, mode) returns ([n], [], []) for every node n.
C3_SelfPath ==
  (IsQuery /\ last.start = last.end) =>
    /\ last.ret.path = <<last.start>>
    /\ last.ret.tips = <<>>
    /\ last.ret.blind_alerts = <<>>

\* a learner query from a node to itself when the node is absent from a
\* non-empty graph
C3_Witness ==
  /\ IsQuery /\ last.start = last.end /\ last.learner_mode
  /\ adj_list # <<>>
  /\ last.start \notin DOMAIN adj_list
  /\ \A u \in DOMAIN adj_list : EdgesTo(adj_list, u, last.start) = {}
  /\ last.ret.path = <<last.start>>

\* every stored edge has a non-negative base cost
AllNonNegative ==
  \A u \in DOMAIN adj_list : \A e \in Range(adj_list[u]) : e.weight >= 0

\* C4: add_edge with a negative base cost raises and leaves the graph as it
\* was, so every stored edge always has base cost >= 0.
C4_NegativeRejected ==
  /\ []AllNonNegative
  /\ [][(last'.op = "add_edge" /\ last'.weight < 0) =>
          (last'.raised /\ adj_list' = adj_list)]_vars

\* a rejected add_edge after a successful one: the stored edge is still there
C4_Witness ==
  /\ last.op = "add_edge" /\ last.weight < 0 /\ last.raised
  /\ adj_list # <<>>

\* the hops of the returned path
Hops == 1..(Len(last.ret.path) - 1)

\* the stored edge whose relaxation put path[i+1] behind path[i] on the route
TakenEdge(i) == adj_list[last.ret.path[i]][last.ret.via[i]]

\* the returned alerts hold an entry for the pair (u, v)
AlertFor(u, v) == \E a \in Range(last.ret.blind_alerts) : a[2] = u /\ a[4] = v

\* C5: in either mode, for every hop of the returned path whose traversed
\* edge (the one whose relaxation put the hop on the route) is hazard-flagged,
\* the hazard alerts contain an entry for the hop's endpoints.
C5_HazardReported ==
  IsQuery =>
    \A i \in Hops :
      TakenEdge(i).blind_spot => AlertFor(last.ret.path[i], last.ret.path[i+1])

\* C6: in Normal mode the advisory sequence returned is empty.
C6_NormalNoTips == (IsQuery /\ ~last.learner_mode) => last.ret.tips = <<>>

\* a Normal query returning a two-hop path all of whose edges carry a tip
C6_Witness ==
  /\ IsQuery /\ ~last.learner_mode
  /\ Len(last.ret.path) = 3
  /\ \A i \in Hops :
       \A e \in EdgesTo(adj_list, last.ret.path[i], last.ret.path[i+1]) : e.tip # ""

NotBlind(e) == ~e.blind_spot

\* the graph without its hazard-flagged edges
SafeOnly(adj) == [u \in DOMAIN adj |-> SelectSeq(adj[u], NotBlind)]

\* end is reachable from start, but not without a hazard-flagged edge
AllRoutesHazardous(adj, start, end) ==
  /\ Reachable(adj, start, end)
  /\ ~Reachable(SafeOnly(adj), start, end)

\* C7: in Learner mode, when every route from start to end contains a
\* hazard-flagged edge, a path from start to end is still returned, and for
\* every hazard edge taken the advisories include its advisory and the alerts
\* include an entry for it.
C7_LearnerFallback ==
  (IsQuery /\ last.learner_mode /\ last.start # last.end
     /\ AllRoutesHazardous(adj_list, last.start, last.end)) =>
    /\ last.ret.path # <<>>
    /\ last.ret.path[1] = last.start
    /\ last.ret.path[Len(last.ret.path)] = last.end
    /\ \A i \in Hops :
         TakenEdge(i).blind_spot =>
           /\ TakenEdge(i).tip # "" => TakenEdge(i).tip \in Range(last.ret.tips)
           /\ AlertFor(last.ret.path[i], last.ret.path[i+1])

\* the positions of the stored edges from u to v in u's list
EdgeIndexes(adj, u, v) == {i \in DOMAIN get(adj, u) : get(adj, u)[i].v = v}

\* the route from start to end that is not the direct hop
OtherRoute(adj, start, end) ==
  CHOOSE p \in Routes(adj, start, end) : p # <<start, end>>

\* exactly two routes lead from start to end: the direct hop, a single stored
\* edge flagged hazardous and High, and one through other nodes all of whose
\* edges are non-hazardous and Low
TwoRoutes(adj, start, end) ==
  /\ start # end
  /\ <<start, end>> \in Routes(adj, start, end)
  /\ Cardinality(Routes(adj, start, end)) = 2
  /\ Cardinality(EdgeIndexes(adj, start, end)) = 1
  /\ \A e \in EdgesTo(adj, start, end) : e.blind_spot /\ e.crowd = "high"
  /\ LET p == OtherRoute(adj, start, end)
     IN \A i \in 1..(Len(p) - 1) :
          \A e \in EdgesTo(adj, p[i], p[i+1]) : ~e.blind_spot /\ e.crowd = "low"

\* base cost h of the direct hazardous edge
HazardBase(adj, start, end) == (CHOOSE e \in EdgesTo(adj, start, end) : TRUE).weight

\* total base cost s of the non-hazardous route, in tenths
SafeBase(adj, start, end) == RouteCost(adj, OtherRoute(adj, start, end), FALSE)

\* s is not more than the penalty differential 0.5*h + 2*h (in tenths)
WithinDifferential(adj, start, end) ==
  SafeBase(adj, start, end) <= 5 * HazardBase(adj, start, end)
                               + 20 * HazardBase(adj, start, end)

\* C8 as stated (h >= 0): with exactly two disjoint routes, the direct one a
\* hazardous High edge of base cost h and the other of non-hazardous Low edges
\* of total base cost s <= 0.5*h + 2*h, Learner mode returns the non-hazardous
\* route and no hazard alert.
C8_AvoidsHazard_AsStated ==
  (IsQuery /\ last.learner_mode
     /\ TwoRoutes(adj_list, last.start, last.end)
     /\ WithinDifferential(adj_list, last.start, last.end)) =>
    /\ last.ret.path = OtherRoute(adj_list, last.start, last.end)
    /\ last.ret.blind_alerts = <<>>

\* C8 amended (h > 0): the same, for a hazardous edge of positive base cost.
C8_AvoidsHazard ==
  (IsQuery /\ last.learner_mode
     /\ TwoRoutes(adj_list, last.start, last.end)
     /\ HazardBase(adj_list, last.start, last.end) > 0
     /\ WithinDifferential(adj_list, last.start, last.end)) =>
    /\ last.ret.path = OtherRoute(adj_list, last.start, last.end)
    /\ last.ret.blind_alerts = <<>>

\* a Learner query on such a graph where the non-hazardous route has the
\* larger base cost (s > h > 0) and is the one returned
C8_Witness ==
  /\ IsQuery /\ last.learner_mode
  /\ TwoRoutes(adj_list, last.start, last.end)
  /\ HazardBase(adj_list, last.start, last.end) > 0
  /\ WithinDifferential(adj_list, last.start, last.end)
  /\ SafeBase(adj_list, last.start, last.end)
       > 10 * HazardBase(adj_list, last.start, last.end)
  /\ last.ret.path = OtherRoute(adj_list, last.start, last.end)

\* the graph built by the same add_edge calls with the default annotations
\* crowd='low', tip='', blind_spot=False
Strip(adj) ==
  [u \in DOMAIN adj |->
     [i \in DOMAIN adj[u] |->
        [v |-> adj[u][i].v, weight |-> adj[u][i].weight,
         crowd |-> "low", tip |-> "", blind_spot |-> FALSE]]]

\* C9: in Normal mode the node path returned is the one returned for the
\* graph with the same edges and base costs and default annotations, so any
\* two graphs that differ only in annotations get the same Normal-mode path.
C9_NormalIgnoresAnnotations ==
  (IsQuery /\ ~last.learner_mode) =>
    last.ret.path = dijkstra(Strip(adj_list), last.start, last.end, FALSE).path

\* a Normal query on an annotated graph for which Learner mode would have
\* returned another path
C9_Witness ==
  /\ IsQuery /\ ~last.learner_mode
  /\ last.ret.path # <<>>
  /\ Strip(adj_list) # adj_list
  /\ dijkstra(adj_list, last.start, last.end, TRUE).path # last.ret.path

\* C11: a dijkstra call leaves the graph as it was: the same keys and the
\* same edge list for every key, so that no node looked up in the call becomes
\* a known start.
C11_GraphUnchanged ==
  [][last'.op = "dijkstra" =>
       /\ DOMAIN adj_list' = DOMAIN adj_list
       /\ \A u \in DOMAIN adj_list : adj_list'[u] = adj_list[u]
       /\ \A n \in Node, m \in Node :
            unknown_start(adj_list', n, m) <=> unknown_start(adj_list, n, m)]_vars

\* a query that found no path after expanding a node that has no entry and
\* is not the end node
C11_Witness ==
  /\ IsQuery /\ last.ret.path = <<>>
  /\ last.start \in DOMAIN adj_list
  /\ \E n \in Node \ DOMAIN adj_list :
       n # last.end /\ EdgesTo(adj_list, last.start, n) # {}

Searching == last.op = "search"
Tracing == last.op = "trace"

\* the call followed step by step returns what dijkstra returns
RunAgrees ==
  IsQuery => last.ret = dijkstra(adj_list, last.start, last.end, last.learner_mode)

\* the number of pushes and pops so far is at most two per stored edge and
\* two for the start node, and no node has been expanded twice
SearchBounded ==
  (Searching \/ Tracing) =>
    /\ Len(last.st.log) <= 2 * (1 + NumEdges(adj_list))
    /\ \A i, j \in DOMAIN last.st.reads :
         last.st.reads[i] = last.st.reads[j] => i = j

\* the back-trace has visited no node twice
TraceBounded ==
  Tracing => \A i, j \in DOMAIN last.path : last.path[i] = last.path[j] => i = j

\* C12: every dijkstra call terminates: the while loop ends (the frontier
\* empties or end is popped) after at most one push and one pop per stored
\* edge, and the back-trace then reaches a node without predecessor, having
\* visited no node twice, and the call returns.
C12_Terminates ==
  /\ []SearchBounded
  /\ []TraceBounded
  /\ Searching ~> Tracing
  /\ Tracing ~> IsQuery

\* a call has returned no path from a start node that lies on a zero-cost
\* cycle and has a zero-cost self-loop
C12_Witness ==
  /\ IsQuery /\ last.start # last.end /\ last.ret.path = <<>>
  /\ \E b \in Node \ {last.start} :
       /\ \E e \in EdgesTo(adj_list, last.start, b) : e.weight = 0
       /\ \E e \in EdgesTo(adj_list, b, last.start) : e.weight = 0
  /\ \E e \in EdgesTo(adj_list, last.start, last.start) : e.weight = 0

\* the value a call returns is a triple of a node sequence, a sequence of
\* advisories and a sequence of alerts
IsTriple(ret) ==
  /\ ret.path \in Seq(Node)
  /\ ret.tips \in Seq({a.tip : a \in Annotation \cup RunAnnotation})
  /\ ret.blind_alerts \in Seq({blind_alert(u, v) : u \in Node, v \in Node})

\* the nodes popped from the frontier so far
Popped(st) == {st.log[i][3] : i \in {k \in DOMAIN st.log : st.log[k][1] = "pop"}}

\* C13: a query never fails: every entry of the frontier, hence every node
\* popped (line 27 reads distances[u]), has a recorded tentative distance,
\* whether it is a key of the graph, the end node or a node seen only as an
\* edge target; every call returns a triple; and add_edge raises only for a
\* negative cost.
C13_NeverFails ==
  /\ Searching \/ Tracing =>
       /\ \A entry \in last.st.pq : entry[2] \in DOMAIN last.st.distances
       /\ Popped(last.st) \subseteq DOMAIN last.st.distances
       /\ DOMAIN last.st.previous \subseteq DOMAIN last.st.distances
  /\ IsQuery => IsTriple(last.ret)
  /\ last.op = "add_edge" /\ last.raised => last.weight < 0

\* a node that is neither a key of the graph nor the end node has been popped
C13_Witness ==
  /\ Searching
  /\ \E n \in Popped(last.st) : n \notin DOMAIN adj_list /\ n # last.end

\* the hops of the returned path, in path order
HopSeq == [i \in Hops |-> i]

\* position, in the edge list of path[i], of the first-inserted edge to path[i+1]
MatchedIndex(i) ==
  CHOOSE k \in EdgeIndexes(adj_list, last.ret.path[i], last.ret.path[i+1]) :
    \A other \in EdgeIndexes(adj_list, last.ret.path[i], last.ret.path[i+1]) : k <= other

MatchedEdge(i) == adj_list[last.ret.path[i]][MatchedIndex(i)]

\* the non-empty advisories of the matched edges in path order (Learner mode)
ExpectedTips ==
  LET HasTip(i) == MatchedEdge(i).tip # ""
      hops      == SelectSeq(HopSeq, HasTip)
  IN IF last.learner_mode THEN [j \in DOMAIN hops |-> MatchedEdge(hops[j]).tip] ELSE <<>>

\* one alert per matched edge whose hazard flag is set, in path order
ExpectedAlerts ==
  LET IsBlind(i) == MatchedEdge(i).blind_spot
      hops       == SelectSeq(HopSeq, IsBlind)
  IN [j \in DOMAIN hops |-> blind_alert(last.ret.path[hops[j]], last.ret.path[hops[j] + 1])]

\* C14: annotation extraction matches each consecutive pair (u, v) of the
\* returned path to the first-inserted edge u->v of u's edge list and to no
\* other: in Learner mode the advisories are exactly the non-empty advisories
\* of the matched edges in path order (none in Normal mode), and in both
\* modes the alerts are exactly one entry per matched hazard-flagged edge.
C14_FirstMatch ==
  IsQuery /\ last.ret.path # <<>> =>
    /\ last.ret.tips = ExpectedTips
    /\ last.ret.blind_alerts = ExpectedAlerts

\* a Learner route has a hop that the search took over a later parallel edge
\* without advisory and hazard, while the first-inserted edge of the hop has both
C14_Witness ==
  /\ IsQuery /\ last.learner_mode
  /\ \E i \in Hops :
       /\ last.ret.via[i] # MatchedIndex(i)
       /\ MatchedEdge(i).tip # "" /\ MatchedEdge(i).blind_spot
       /\ TakenEdge(i).tip = "" /\ ~TakenEdge(i).blind_spot

\* the search state of the running call
InSearch == Searching \/ Tracing

\* the frontier just before event k of the log
Frontier(st, k) ==
  {<<st.log[i][2], st.log[i][3]>> : i \in {j \in 1..(k - 1) : st.log[j][1] = "push"}}
    \ {<<st.log[i][2], st.log[i][3]>> : i \in {j \in 1..(k - 1) : st.log[j][1] = "pop"}}

Pops(st) == {k \in DOMAIN st.log : st.log[k][1] = "pop"}

\* the other frontier entries of the same cost as the entry popped by event k
Tied(st, k) ==
  {entry \in Frontier(st, k) : entry[1] = st.log[k][2] /\ entry[2] # st.log[k][3]}

\* the event that inserted the entry into the frontier
PushPos(st, entry) ==
  CHOOSE i \in DOMAIN st.log : st.log[i] = <<"push", entry[1], entry[2]>>

\* the event that first inserted node u into the frontier
Discovered(st, u) ==
  CHOOSE i \in DOMAIN st.log :
    /\ st.log[i][1] = "push" /\ st.log[i][3] = u
    /\ \A j \in 1..(i - 1) : ~(st.log[j][1] = "push" /\ st.log[j][3] = u)

\* the position of u among the expanded nodes
ReadPos(st, u) == CHOOSE i \in DOMAIN st.reads : st.reads[i] = u

\* the expanded nodes that offer v its recorded distance
EqualCostNeighbours(st, v) ==
  {u \in Range(st.reads) :
     \E e \in EdgesTo(adj_list, u, v) :
       st.distances[u] + EffectiveCost(e, last.learner_mode) = st.distances[v]}

\* those at the same distance as the predecessor of v
TiedNeighbours(st, v) ==
  {u \in EqualCostNeighbours(st, v) : st.distances[u] = st.distances[st.previous[v]]}

HasPredecessor(st) == {v \in DOMAIN st.previous : st.previous[v] # None}

\* C15 as stated: of frontier entries of equal cost the one inserted earlier
\* is popped first, and the predecessor of a node is the tied neighbour
\* discovered first.
C15_TiesByInsertion_AsStated ==
  InSearch =>
    /\ \A k \in Pops(last.st) : \A entry \in Tied(last.st, k) :
         PushPos(last.st, <<last.st.log[k][2], last.st.log[k][3]>>) < PushPos(last.st, entry)
    /\ \A v \in HasPredecessor(last.st) :
         \A u \in TiedNeighbours(last.st, v) \ {last.st.previous[v]} :
           Discovered(last.st, last.st.previous[v]) < Discovered(last.st, u)

\* C15: of frontier entries of equal cost the one with the smaller node
\* identifier is popped first, whatever the order of insertion, and the
\* predecessor of a node is, of the neighbours offering it the same least
\* cost, the one popped first.
C15_TiesByNode ==
  InSearch =>
    /\ \A k \in Pops(last.st) : \A entry \in Tied(last.st, k) :
         last.st.log[k][3] < entry[2]
    /\ \A v \in HasPredecessor(last.st) :
         \A u \in EqualCostNeighbours(last.st, v) \ {last.st.previous[v]} :
           ReadPos(last.st, last.st.previous[v]) < ReadPos(last.st, u)

\* the predecessor of a node was inserted into the frontier after a tied
\* neighbour of the node and popped before it
C15_Witness ==
  /\ InSearch
  /\ \E v \in HasPredecessor(last.st) :
       \E u \in TiedNeighbours(last.st, v) \ {last.st.previous[v]} :
         /\ Discovered(last.st, u) < Discovered(last.st, last.st.previous[v])
         /\ last.st.previous[v] < u

\* the while loop of lines 25-43 without the break of lines 29-30: the search
\* run until the frontier is empty
RECURSIVE search_full(_, _, _)
search_full(adj, st, learner_mode) ==
  IF st.pq = {} THEN st
  ELSE LET top    == heappop(st.pq)
           popped == pop(st)
       IN IF top[1] > st.distances[top[2]]
          THEN search_full(adj, popped, learner_mode)
          ELSE search_full(adj, expand(adj, popped, top[2], top[1], learner_mode),
                           learner_mode)

\* the value dijkstra would return without the break
dijkstra_full(adj, start, end, learner_mode) ==
  IF unknown_start(adj, start, end)
  THEN no_path
  ELSE IF start = end
  THEN [path |-> <<start>>, tips |-> <<>>, blind_alerts |-> <<>>, via |-> <<>>]
  ELSE LET st == search_full(adj, search_init(adj, start, end), learner_mode)
       IN finish(adj, start, back_trace(st.previous, end), st.via, learner_mode)

\* C16: the early exit when end is popped is only an optimisation: the triple
\* returned by dijkstra equals the triple returned by the same search run
\* until the frontier is empty.
C16_EarlyExit ==
  IsQuery =>
    LET full == dijkstra_full(adj_list, last.start, last.end, last.learner_mode)
    IN /\ last.ret.path = full.path
       /\ last.ret.tips = full.tips
       /\ last.ret.blind_alerts = full.blind_alerts

\* a call has returned a path after leaving the loop with entries still in
\* the frontier, which the search without the break goes on to expand
C16_Witness ==
  /\ IsQuery /\ Len(last.ret.path) >= 2
  /\ LET init  == search_init(adj_list, last.start, last.end)
         early == search(adj_list, init, last.end, last.learner_mode)
         full  == search_full(adj_list, init, last.learner_mode)
     IN /\ early.pq # {}
        /\ Len(full.reads) > Len(early.reads) + 1
        /\ Len(full.log) > Len(early.log) + 2

\* the edge record of the arguments of the last add_edge call
LastEdge ==
  [v |-> last.v, weight |-> last.weight, crowd |-> last.crowd, tip |-> last.tip,
   blind_spot |-> last.blind_spot]

\* C17: a successful add_edge(u, v, w, ...) appends exactly one edge, the one
\* of its arguments, at the end of u's edge list and changes nothing else:
\* the earlier edges of u keep their order, every other node's list is
\* unchanged, u is the only key that can be new (v becomes a key only if it is
\* u), and self-loops and duplicate parallel edges are stored like any other.
C17_AppendsOneEdge ==
  [][(last'.op = "add_edge" /\ ~last'.raised) =>
       /\ DOMAIN adj_list' = DOMAIN adj_list \cup {last'.u}
       /\ adj_list'[last'.u] =
            Append(get(adj_list, last'.u),
                   [v |-> last'.v, weight |-> last'.weight, crowd |-> last'.crowd,
                    tip |-> last'.tip, blind_spot |-> last'.blind_spot])
       /\ \A n \in DOMAIN adj_list \ {last'.u} : adj_list'[n] = adj_list[n]
       /\ NumEdges(adj_list') = NumEdges(adj_list) + 1]_vars

\* an edge has just been stored behind an identical edge and a self-loop, and
\* its target is not a key
C17_Witness ==
  /\ last.op = "add_edge" /\ ~last.raised
  /\ last.v \notin DOMAIN adj_list
  /\ Len(adj_list[last.u]) = 3
  /\ adj_list[last.u][3] = LastEdge
  /\ adj_list[last.u][2] = LastEdge
  /\ adj_list[last.u][1].v = last.u

\* the edge whose relaxation gave v its recorded distance and predecessor
RelaxedEdge(st, v) == adj_list[st.previous[v]][st.via[v]]

\* the cost the search added for that edge, in tenths
UsedCost(st, v) == st.distances[v] - st.distances[st.previous[v]]

\* C18: the effective cost the search uses for an edge of base cost w is w in
\* Normal mode and, in Learner mode, w plus the congestion bias (low 0,
\* medium 0.2 w, high 0.5 w) plus the hazard penalty (2 w with the flag,
\* else 0); it lies between w and 3.5 w and is never negative.
C18_EffectiveCost ==
  InSearch =>
    \A v \in HasPredecessor(last.st) :
      LET e    == RelaxedEdge(last.st, v)
          used == UsedCost(last.st, v)
      IN /\ used = EffectiveCost(e, last.learner_mode)
         /\ ~last.learner_mode => used = 10 * e.weight
         /\ used >= 10 * e.weight
         /\ used <= 35 * e.weight
         /\ used >= 0

\* a Learner search has relaxed a congested, hazard-flagged edge of positive
\* base cost at 3.5 times that cost
C18_Witness ==
  /\ InSearch /\ last.learner_mode
  /\ \E v \in HasPredecessor(last.st) :
       /\ RelaxedEdge(last.st, v).crowd = "high"
       /\ RelaxedEdge(last.st, v).blind_spot
       /\ RelaxedEdge(last.st, v).weight > 0
       /\ UsedCost(last.st, v) = 35 * RelaxedEdge(last.st, v).weight

\* C19: every non-empty path returned is well formed: it starts at start,
\* ends at end, each consecutive pair is joined by a stored edge, no node
\* occurs twice, it has length 1 only when start = end, and the advisories
\* and the alerts each have at most len(path) - 1 entries.
C19_WellFormedPath ==
  IsQuery /\ last.ret.path # <<>> =>
    LET path == last.ret.path
    IN /\ path[1] = last.start
       /\ path[Len(path)] = last.end
       /\ \A i \in Hops : EdgesTo(adj_list, path[i], path[i+1]) # {}
       /\ \A i, j \in DOMAIN path : path[i] = path[j] => i = j
       /\ Len(path) = 1 => last.start = last.end
       /\ Len(last.ret.tips) <= Len(path) - 1
       /\ Len(last.ret.blind_alerts) <= Len(path) - 1

\* a path of three nodes whose first hop lies on a zero-cost cycle and is
\* hazard-flagged
C19_Witness ==
  /\ IsQuery /\ Len(last.ret.path) = 3
  /\ \E e \in EdgesTo(adj_list, last.ret.path[1], last.ret.path[2]) :
       e.weight = 0 /\ e.blind_spot
  /\ \E e \in EdgesTo(adj_list, last.ret.path[2], last.ret.path[1]) : e.weight = 0
  /\ last.ret.blind_alerts # <<>>

\* C20: the breadth-first pre-check agrees with the path query: for every
\* start that is a key of the graph, every end and both modes,
\* _is_connected(start, end) is true exactly when dijkstra(start, end, mode)
\* returns a non-empty path; so route_between_coordinates never takes its
\* 'No route found' branch, and returns a path whenever the pre-check passes.
C20_PreCheckAgrees ==
  /\ \A start \in DOMAIN adj_list, end \in Node, learner_mode \in BOOLEAN :
       is_connected(adj_list, start, end)
         <=> dijkstra(adj_list, start, end, learner_mode).path # <<>>
  /\ last.op = "_is_connected" /\ last.start \in DOMAIN adj_list =>
       (last.ret <=> \E learner_mode \in BOOLEAN :
          dijkstra(adj_list, last.start, last.end, learner_mode).path # <<>>)
  /\ last.op = "route" =>
       /\ last.branch # "No route found between these locations"
       /\ last.connected <=> last.ret.path # <<>>

\* a Learner route of three nodes was planned after the pre-check had passed
C20_Witness ==
  /\ last.op = "route" /\ last.connected /\ last.learner_mode
  /\ Len(last.ret.path) = 3
  /\ last.branch = "route details"

\* the paths the two modes return for the start and end of the last call
NormalPath == dijkstra(adj_list, last.start, last.end, FALSE).path
LearnerPath == dijkstra(adj_list, last.start, last.end, TRUE).path

\* C21: Learner mode returns a non-empty path exactly when Normal mode does;
\* the total base cost of the Normal route is never larger than that of the
\* Learner route, and the total learner cost of the Learner route is never
\* larger than that of the Normal route (the cheapest stored edge per hop).
C21_ModesRelated ==
  IsQuery =>
    /\ last.ret.path = IF last.learner_mode THEN LearnerPath ELSE NormalPath
    /\ LearnerPath # <<>> <=> NormalPath # <<>>
    /\ NormalPath # <<>> =>
         /\ RouteCost(adj_list, NormalPath, FALSE) <= RouteCost(adj_list, LearnerPath, FALSE)
         /\ RouteCost(adj_list, LearnerPath, TRUE) <= RouteCost(adj_list, NormalPath, TRUE)

\* a Learner call has returned a route other than the Normal one, dearer in
\* base cost and cheaper in learner cost
C21_Witness ==
  /\ IsQuery /\ last.learner_mode /\ last.ret.path # <<>>
  /\ last.ret.path # NormalPath
  /\ RouteCost(adj_list, NormalPath, FALSE) < RouteCost(adj_list, last.ret.path, FALSE)
  /\ RouteCost(adj_list, last.ret.path, TRUE) < RouteCost(adj_list, NormalPath, TRUE)

\* C22: for the path dijkstra returns in Normal mode the summary's
\* distance_meters equals the total base cost the search minimised for the
\* route (the least total base cost from start to end, here in tenths), also
\* with parallel edges of different cost; turns is len(path) - 2; a path of
\* fewer than 2 nodes yields an all-zero summary.
C22_SummaryDistance ==
  last.op = "summary" =>
    IF Len(last.path) < 2
    THEN last.ret = [distance_meters |-> 0, turns |-> 0, nodes |-> 0]
    ELSE /\ 10 * last.ret.distance_meters = RouteCost(adj_list, last.path, FALSE)
         /\ \A p \in Routes(adj_list, last.start, last.end) :
              10 * last.ret.distance_meters <= RouteCost(adj_list, p, FALSE)
         /\ last.ret.turns = Len(last.path) - 2

=============================================================================
